---- MODULE Spec2Model ----
(***************************************************************************)
(* A model of backend/main.py of Zutomate-GTM-Rag: the system-prompt cache *)
(* (load_system_prompt, get_system_prompt, update_system_prompt) and the   *)
(* /chat turn pipeline (prompt load, history, rephrasing, retrieval,       *)
(* generation, direct-LLM fallback).                                       *)
(*                                                                         *)
(* Strings are sequences of one-character strings.  Values the program     *)
(* treats as opaque (file names, chunk texts, model replies, exception     *)
(* texts, fixed literals) are sequences of a single atom.                  *)
(***************************************************************************)
EXTENDS Integers, Sequences, FiniteSets, TLC

(* ------------------------------ bounds --------------------------------- *)
MaxPromptLen == 1
MaxMsgLen == 7
MaxWords == 4
MaxHist == 1
MaxDocs == 2
MaxRequests == 2

(* --------------------------- strings ----------------------------------- *)
Strings(chars, n) == UNION {[1..k -> chars] : k \in 0..n}

\* Python's None, kept apart from every string (the empty string included).
None == <<"<None>">>

\* Truthiness of an Optional[str]: None and "" are falsy.
Truthy(x) == x # None /\ x # <<>>

Whitespace == {" "}

RECURSIVE LStrip(_)
LStrip(s) ==
    IF s # <<>> /\ Head(s) \in Whitespace THEN LStrip(Tail(s)) ELSE s

RECURSIVE RStrip(_)
RStrip(s) ==
    IF s # <<>> /\ s[Len(s)] \in Whitespace
    THEN RStrip(SubSeq(s, 1, Len(s) - 1)) ELSE s

\* str.strip()
Strip(s) == RStrip(LStrip(s))

\* str.split() with no argument: the maximal runs of non-whitespace.
RECURSIVE Split(_)
Split(s) ==
    LET t == LStrip(s)
        WordEnd == IF \E i \in 1..Len(t) : t[i] \in Whitespace
                   THEN (CHOOSE i \in 1..Len(t) :
                            /\ t[i] \in Whitespace
                            /\ \A j \in 1..(i - 1) : t[j] \notin Whitespace) - 1
                   ELSE Len(t)
    IN  IF t = <<>> THEN <<>>
        ELSE <<SubSeq(t, 1, WordEnd)>> \o Split(SubSeq(t, WordEnd + 1, Len(t)))

\* sep.join(parts)
RECURSIVE Join(_, _)
Join(sep, parts) ==
    IF parts = <<>> THEN <<>>
    ELSE IF Len(parts) = 1 THEN parts[1]
    ELSE parts[1] \o sep \o Join(sep, Tail(parts))

(* ----------------------- system settings ------------------------------- *)
PromptChars == {"p", " ", "{", "}"}
Prompts == Strings(PromptChars, MaxPromptLen)

DEFAULT_PROMPT == <<>>

\* system_prompt.json on disk: missing, unparsable, or a JSON object whose
\* "system_prompt" member is a string (None when the member is missing).
FileAbsent == [exists |-> FALSE, valid |-> FALSE, system_prompt |-> None]
FileCorrupt == [exists |-> TRUE, valid |-> FALSE, system_prompt |-> None]
JsonFile(s) == [exists |-> TRUE, valid |-> TRUE, system_prompt |-> s]
FileStates == {FileAbsent, FileCorrupt} \cup {JsonFile(s) : s \in Prompts \cup {None}}

\* What the Supabase request of one call does: it raises (network, timeout),
\* answers with a status other than 200, answers 200 with no row, or answers
\* 200 with a row whose setting_value is the given string.
RemoteOutcomes ==
    {[kind |-> k, value |-> None] : k \in {"raise", "non200", "empty"}}
        \cup {[kind |-> "row", value |-> v] : v \in Prompts}

\* What open(SYSTEM_PROMPT_FILE, "w") + json.dump does: it succeeds, fails
\* in open() (the file is untouched), or fails after open() truncated it.
WriteOutcomes == {"ok", "open_fails", "dump_fails"}

WriteFile(file, value, outcome) ==
    CASE outcome = "ok" -> JsonFile(value)
      [] outcome = "open_fails" -> file
      [] outcome = "dump_fails" -> FileCorrupt

\* One call's environment: the remote answer, the outcome of a file write,
\* and whether an existing file can be opened for reading.
Envs == [remote : RemoteOutcomes, write : WriteOutcomes, readable : BOOLEAN]

VARIABLES
    _cached_prompt,       \* the module global of the same name
    prompt_file,          \* contents of SYSTEM_PROMPT_FILE
    supabase_configured,  \* NEXT_PUBLIC_SUPABASE_URL and SUPABASE_SERVICE_ROLE_KEY are set
    last,                 \* the last settings call: its arguments and what it returned
    vectorstore,          \* "connected", or "None" when initialisation failed
    pc,                   \* position of the /chat handler
    request,              \* the ChatRequest being handled
    sys_prompt,
    chat_history_str,
    standalone_question,
    retrieval,            \* what step 3 did, and the query it searched for
    context_docs,
    context_text,
    mode,                 \* which generation branch ran: "none", "general", "rag"
    llm_calls,            \* every call made to llm during the turn
    stages,               \* the steps of the handler entered so far
    caught,               \* the exception caught by the handler's outer except
    result,               \* the object the handler returned
    loop_thread,          \* the request whose coroutine the event loop is running, or 0
    handlers,             \* every request the server was sent, and where its handler stands
    temp_files,           \* the temp_<filename> files in the working directory
    index                 \* what add_documents put into the Pinecone index

cache_vars == <<_cached_prompt, prompt_file, supabase_configured, last>>
chat_vars == <<vectorstore, pc, request, sys_prompt, chat_history_str,
               standalone_question, retrieval, context_docs, context_text, mode,
               llm_calls, stages, caught, result>>
server_vars == <<loop_thread, handlers, temp_files, index>>
vars == <<cache_vars, chat_vars, server_vars>>

\* Step 3 without the assignment of line 372: the file's value is returned
\* but not adopted into memory.
LoadFromFile_NoAdopt(mem, file, env, io, failed) ==
    LET read_raises == file.exists /\ (~env.readable \/ ~file.valid)
        cached == IF file.exists /\ ~read_raises THEN file.system_prompt ELSE None
        io2 == io + 1
        failed2 == failed \/ read_raises
    IN  IF Truthy(cached)
        THEN [ret |-> cached, mem |-> mem, file |-> file,
              io |-> io2, failed |-> failed2, tier |-> "file"]
        ELSE IF ~Truthy(mem)
        THEN [ret |-> DEFAULT_PROMPT, mem |-> mem, file |-> file,
              io |-> io2, failed |-> failed2, tier |-> "default"]
        ELSE [ret |-> mem, mem |-> mem, file |-> file,
              io |-> io2, failed |-> failed2, tier |-> "memory_after_miss"]

\* Step 3 and 4 of load_system_prompt: the local file, then the fallback.
\* Yields the returned string, the new _cached_prompt, and what happened.
LoadFromFile(mem, file, env, io, failed) ==
    LET read_raises == file.exists /\ (~env.readable \/ ~file.valid)
        cached == IF file.exists /\ ~read_raises THEN file.system_prompt ELSE None
        io2 == io + 1
        failed2 == failed \/ read_raises
    IN  IF Truthy(cached)
        THEN [ret |-> cached, mem |-> cached, file |-> file,
              io |-> io2, failed |-> failed2, tier |-> "file"]
        ELSE IF ~Truthy(mem)
        THEN [ret |-> DEFAULT_PROMPT, mem |-> mem, file |-> file,
              io |-> io2, failed |-> failed2, tier |-> "default"]
        ELSE [ret |-> mem, mem |-> mem, file |-> file,
              io |-> io2, failed |-> failed2, tier |-> "memory_after_miss"]

\* load_system_prompt without the test of line 334: every call goes to Supabase.
load_system_prompt_NoMemoryTier(mem, file, configured, force_sync, env) ==
    IF ~configured
    THEN LoadFromFile(mem, file, env, 0, FALSE)
    ELSE IF env.remote.kind = "row" /\ Truthy(env.remote.value)
    THEN [ret |-> env.remote.value, mem |-> env.remote.value,
          file |-> WriteFile(file, env.remote.value, env.write),
          io |-> 2, failed |-> env.write # "ok", tier |-> "remote"]
    ELSE LoadFromFile(mem, file, env, 1,
                      env.remote.kind \in {"raise", "non200"})

\* load_system_prompt without the write of lines 352-355: a value read from
\* Supabase is kept in memory only.
load_system_prompt_NoWriteThrough(mem, file, configured, force_sync, env) ==
    IF Truthy(mem) /\ ~force_sync
    THEN [ret |-> mem, mem |-> mem, file |-> file,
          io |-> 0, failed |-> FALSE, tier |-> "memory"]
    ELSE IF ~configured
    THEN LoadFromFile(mem, file, env, 0, FALSE)
    ELSE IF env.remote.kind = "row" /\ Truthy(env.remote.value)
    THEN [ret |-> env.remote.value, mem |-> env.remote.value, file |-> file,
          io |-> 1, failed |-> FALSE, tier |-> "remote"]
    ELSE LoadFromFile(mem, file, env, 1,
                      env.remote.kind \in {"raise", "non200"})

\* load_system_prompt with the assignment of line 350 moved after the dump
\* of line 354: a failed save leaves memory as it was.
load_system_prompt_MemoryAfterWrite(mem, file, configured, force_sync, env) ==
    IF Truthy(mem) /\ ~force_sync
    THEN [ret |-> mem, mem |-> mem, file |-> file,
          io |-> 0, failed |-> FALSE, tier |-> "memory"]
    ELSE IF ~configured
    THEN LoadFromFile(mem, file, env, 0, FALSE)
    ELSE IF env.remote.kind = "row" /\ Truthy(env.remote.value)
    THEN [ret |-> env.remote.value,
          mem |-> IF env.write = "ok" THEN env.remote.value ELSE mem,
          file |-> WriteFile(file, env.remote.value, env.write),
          io |-> 2, failed |-> env.write # "ok", tier |-> "remote"]
    ELSE LoadFromFile(mem, file, env, 1,
                      env.remote.kind \in {"raise", "non200"})

load_system_prompt(mem, file, configured, force_sync, env) ==
    IF Truthy(mem) /\ ~force_sync
    THEN [ret |-> mem, mem |-> mem, file |-> file,
          io |-> 0, failed |-> FALSE, tier |-> "memory"]
    ELSE IF ~configured
    THEN LoadFromFile(mem, file, env, 0, FALSE)
    ELSE IF env.remote.kind = "row" /\ Truthy(env.remote.value)
    THEN [ret |-> env.remote.value, mem |-> env.remote.value,
          file |-> WriteFile(file, env.remote.value, env.write),
          io |-> 2, failed |-> env.write # "ok", tier |-> "remote"]
    ELSE LoadFromFile(mem, file, env, 1,
                      env.remote.kind \in {"raise", "non200"})

(* ---------------- the settings endpoints and start-up ------------------ *)
\* The environments a call can meet, listed without the outcomes the call
\* never looks at: a file write happens only after a row with a value.
RowEnvs == {e \in Envs : e.remote.kind = "row" /\ Truthy(e.remote.value) /\ e.readable}
MissEnvs == {e \in Envs : ~(e.remote.kind = "row" /\ Truthy(e.remote.value))
                          /\ e.write = "ok"}
CallEnvs == RowEnvs \cup MissEnvs
\* The same, for a call that never reaches the remote store (memory answers,
\* or Supabase is not configured): only the file read is looked at.
LocalEnvs == {e \in MissEnvs : e.remote.kind = "empty"}
EnvsOf(mem, configured, force_sync) ==
    IF (Truthy(mem) /\ ~force_sync) \/ ~configured THEN LocalEnvs ELSE CallEnvs

\* How the call before this one ended, for statements about two calls in a row.
Summary(l) ==
    CASE l.kind = "get" -> IF l.force THEN "get_sync" ELSE "get"
      [] l.kind = "set" -> IF l.status # 200 THEN "set_rejected"
                           ELSE IF l.failed THEN "set_unsaved" ELSE "set"
      [] OTHER -> "start"

\* Lines 384-388: the load at import time, force_sync=True, from an empty memory.
StartupLoad(file0, configured, env) ==
    load_system_prompt(None, file0, configured, TRUE, env)

\* Every way start-up can end: the file found on disk, the configuration,
\* and what the load made of them.
Boots ==
    {[configured |-> c, load |-> StartupLoad(f, c, e)] :
        f \in FileStates, c \in BOOLEAN, e \in CallEnvs}

Booted(b) ==
    /\ _cached_prompt = b.load.mem
    /\ prompt_file = b.load.file
    /\ supabase_configured = b.configured

NoCall ==
    [kind |-> "none", force |-> FALSE, arg |-> None, ret |-> None,
     status |-> 200, raised |-> 0, io |-> 0, failed |-> FALSE,
     tier |-> "none", after |-> "none"]

InitCache ==
    \E b \in Boots :
        /\ Booted(b)
        /\ last = [kind |-> "start", force |-> TRUE, arg |-> None,
                   ret |-> b.load.ret, status |-> 200, raised |-> 0,
                   io |-> b.load.io, failed |-> b.load.failed,
                   tier |-> b.load.tier, after |-> "boot"]

\* GET /settings/system-prompt?sync=...
get_system_prompt(sync, env) ==
    LET r == load_system_prompt(_cached_prompt, prompt_file,
                                supabase_configured, sync, env)
    IN  /\ _cached_prompt' = r.mem
        /\ prompt_file' = r.file
        /\ last' = [kind |-> "get", force |-> sync, arg |-> None,
                    ret |-> r.ret, status |-> 200, raised |-> 0,
                    io |-> r.io, failed |-> r.failed, tier |-> r.tier,
                    after |-> Summary(last)]
        /\ UNCHANGED supabase_configured

GetSystemPrompt ==
    /\ \E sync \in BOOLEAN :
         \E env \in EnvsOf(_cached_prompt, supabase_configured, sync) :
             get_system_prompt(sync, env)
    /\ UNCHANGED <<chat_vars, server_vars>>

\* The test of line 401: not new_prompt or len(new_prompt.strip()) == 0
Rejected(new_prompt) == ~Truthy(new_prompt) \/ Len(Strip(new_prompt)) = 0

\* update_system_prompt with the memory assignment of line 405 moved into the
\* try of line 408, after the dump: a failed save leaves memory as it was.
update_system_prompt_MemoryAfterSave(body, write) ==
    LET new_prompt == IF body = None THEN <<>> ELSE body
    IN  IF Rejected(new_prompt)
        THEN /\ last' = [kind |-> "set", force |-> FALSE, arg |-> new_prompt,
                         ret |-> None, status |-> 500, raised |-> 400,
                         io |-> 0, failed |-> FALSE, tier |-> "none",
                         after |-> Summary(last)]
             /\ UNCHANGED <<_cached_prompt, prompt_file, supabase_configured>>
        ELSE /\ _cached_prompt' = IF write = "ok" THEN new_prompt ELSE _cached_prompt
             /\ prompt_file' = WriteFile(prompt_file, new_prompt, write)
             /\ last' = [kind |-> "set", force |-> FALSE, arg |-> new_prompt,
                         ret |-> new_prompt, status |-> 200, raised |-> 0,
                         io |-> 1, failed |-> write # "ok", tier |-> "none",
                         after |-> Summary(last)]
             /\ UNCHANGED supabase_configured

\* PUT /settings/system-prompt.  body is the value under "system_prompt",
\* or None when the dict has no such key (prompt.get(..., "")).
update_system_prompt(body, write) ==
    LET new_prompt == IF body = None THEN <<>> ELSE body
    IN  IF Rejected(new_prompt)
        THEN \* HTTPException(400) is raised inside the try and caught by
             \* "except Exception", which raises HTTPException(500).
             /\ last' = [kind |-> "set", force |-> FALSE, arg |-> new_prompt,
                         ret |-> None, status |-> 500, raised |-> 400,
                         io |-> 0, failed |-> FALSE, tier |-> "none",
                         after |-> Summary(last)]
             /\ UNCHANGED <<_cached_prompt, prompt_file, supabase_configured>>
        ELSE /\ _cached_prompt' = new_prompt
             /\ prompt_file' = WriteFile(prompt_file, new_prompt, write)
             /\ last' = [kind |-> "set", force |-> FALSE, arg |-> new_prompt,
                         ret |-> new_prompt, status |-> 200, raised |-> 0,
                         io |-> 1, failed |-> write # "ok", tier |-> "none",
                         after |-> Summary(last)]
             /\ UNCHANGED supabase_configured

UpdateSystemPrompt ==
    /\ \E body \in Prompts \cup {None}, write \in WriteOutcomes :
           update_system_prompt(body, write)
    /\ UNCHANGED <<chat_vars, server_vars>>

(* ------------------------------ /chat ---------------------------------- *)
HistoryWindow == 8
GreetingWords == 4

MsgChars == {"w", " "}
Messages == Strings(MsgChars, MaxMsgLen)

\* The message of n one-letter words separated by single blanks.
Words(n) == Join(<<" ">>, [i \in 1..n |-> <<"w">>])
ChatMessages == {Words(n) : n \in 0..MaxWords}

\* A history entry is a dict; a member is None when the dict lacks the key.
HistoryEntries == {[role |-> <<"assistant">>, content |-> <<"w">>],
                   [role |-> None, content |-> None]}
Histories == UNION {[1..n -> HistoryEntries] : n \in 0..MaxHist}

\* dict.get(key, default)
Get(value, default) == IF value = None THEN default ELSE value

\* Retrieved documents: page_content and metadata["filename"] (None: no such key).
Docs == {[page_content |-> <<"text1">>, filename |-> <<"a.pdf">>],
         [page_content |-> <<"text2">>, filename |-> None]}
DocLists == UNION {[1..n -> Docs] : n \in 0..MaxDocs}

\* What one call to the language model does: it answers or it raises.
LlmOutcomes(kind) ==
    {[ok |-> TRUE, text |-> <<"<reply to " \o kind \o ">">>],
     [ok |-> FALSE, text |-> <<"<error in " \o kind \o ">">>]}

\* What retriever.invoke does: it raises or it returns documents.
RetrieverOutcomes ==
    {[ok |-> FALSE, docs |-> <<>>]} \cup {[ok |-> TRUE, docs |-> d] : d \in DocLists}

Apology == <<"I encountered an error processing your request. Please try again in a moment.">>
NoResult == [pending |-> TRUE]
NoException == [stage |-> "none", text |-> None]

\* request.history[-8:]
LastN(seq, n) == IF Len(seq) <= n THEN seq ELSE SubSeq(seq, Len(seq) - n + 1, Len(seq))

\* Lines 77-80.
HistoryString(history) ==
    Join(<<"\n">>, [i \in 1..Len(LastN(history, HistoryWindow)) |->
                        Get(LastN(history, HistoryWindow)[i].role, <<"user">>)
                            \o <<": ">>
                            \o Get(LastN(history, HistoryWindow)[i].content, <<>>)])

\* Line 83 with the threshold one word lower.
is_greeting_OffByOne(message) == Len(Split(message)) < GreetingWords - 1

\* Line 83.
is_greeting(message) == Len(Split(message)) < GreetingWords

\* Index of the "}" that closes the replacement field opened at s[1], counting
\* nested braces as str.format does; 0 when the field is not closed within s.
RECURSIVE FieldClose(_, _, _)
FieldClose(s, i, depth) ==
    IF i > Len(s) THEN 0
    ELSE IF s[i] = "{" THEN FieldClose(s, i + 1, depth + 1)
    ELSE IF s[i] = "}" THEN (IF depth = 1 THEN i ELSE FieldClose(s, i + 1, depth - 1))
    ELSE FieldClose(s, i + 1, depth)

\* What ChatPromptTemplate.from_template and the later invoke make of the
\* system prompt pasted into the f-string template: "{{" and "}}" become one
\* brace; a single "}" or an unclosed "{" is a ValueError in from_template
\* (the field of a "{" left open runs on into the template's own
\* {chat_history} and {question} and never closes); a closed field names a
\* variable the chain does not supply, which fails at invoke.  No string
\* over PromptChars spells chat_history, question or context.
RECURSIVE RenderSystemPrompt(_)
RenderSystemPrompt(s) ==
    IF s = <<>> THEN [status |-> "ok", text |-> <<>>]
    ELSE IF s[1] \in {"{", "}"} /\ Len(s) >= 2 /\ s[2] = s[1]
    THEN LET rest == RenderSystemPrompt(SubSeq(s, 3, Len(s)))
         IN  [status |-> rest.status, text |-> <<s[1]>> \o rest.text]
    ELSE IF s[1] = "}" THEN [status |-> "malformed", text |-> <<>>]
    ELSE IF s[1] = "{"
    THEN LET close == FieldClose(s, 2, 1)
         IN  IF close = 0 THEN [status |-> "malformed", text |-> <<>>]
             ELSE LET rest == RenderSystemPrompt(SubSeq(s, close + 1, Len(s)))
                  IN  [status |-> IF rest.status = "malformed" THEN "malformed"
                                  ELSE "missing_variable",
                       text |-> rest.text]
    ELSE LET rest == RenderSystemPrompt(Tail(s))
         IN  [status |-> rest.status, text |-> <<s[1]>> \o rest.text]

\* Line 153.
SourceLabel(d) == Get(d.filename, <<"doc">>)
ContextBlock(d) == <<"[Source: ">> \o SourceLabel(d) \o <<"]: ">> \o d.page_content
\* Line 153 joining the documents last to first.
ContextText_Reversed(docs) ==
    Join(<<"\n\n">>, [i \in 1..Len(docs) |-> ContextBlock(docs[Len(docs) + 1 - i])])

ContextText(docs) == Join(<<"\n\n">>, [i \in 1..Len(docs) |-> ContextBlock(docs[i])])

LlmCall(kind, instructions, history, context, question, outcome) ==
    [kind |-> kind, instructions |-> instructions, history |-> history,
     context |-> context, question |-> question,
     ok |-> outcome.ok, text |-> outcome.text]

\* Lines 67-74: the default standalone question and the system prompt.
ChatLoadPrompt ==
    /\ pc = "start"
    /\ \E env \in EnvsOf(_cached_prompt, supabase_configured, FALSE) :
         LET r == load_system_prompt(_cached_prompt, prompt_file,
                                     supabase_configured, FALSE, env)
         IN  /\ _cached_prompt' = r.mem
             /\ prompt_file' = r.file
             /\ sys_prompt' = r.ret
    /\ standalone_question' = request.message
    /\ stages' = Append(stages, "load")
    /\ pc' = "contextualize"
    /\ UNCHANGED <<server_vars, supabase_configured, last, vectorstore, request,
                   chat_history_str, retrieval, context_docs, context_text,
                   mode, llm_calls, caught, result>>

\* Lines 76-95 without the try of line 91: a rephrasing failure reaches the
\* handler's outer except.
Contextualize_Unguarded(outcome) ==
    LET history_str == HistoryString(request.history)
        rephrase == history_str # <<>> /\ ~is_greeting(request.message)
    IN  /\ chat_history_str' = history_str
        /\ IF rephrase
           THEN /\ llm_calls' = Append(llm_calls,
                       LlmCall("rephrase", None, history_str, None,
                               request.message, outcome))
                /\ standalone_question' =
                       IF outcome.ok THEN outcome.text ELSE standalone_question
                /\ pc' = IF outcome.ok THEN "retrieve" ELSE "except"
                /\ caught' = IF outcome.ok THEN caught
                             ELSE [stage |-> "rephrase", text |-> outcome.text]
           ELSE /\ outcome.ok
                /\ pc' = "retrieve"
                /\ UNCHANGED <<llm_calls, standalone_question, caught>>

\* Lines 76-95: the history string, then the rephrasing call when there is
\* history and the message is not a greeting.  A rephrasing failure is
\* caught at line 94 and leaves standalone_question as it was.
Contextualize(outcome) ==
    LET history_str == HistoryString(request.history)
        rephrase == history_str # <<>> /\ ~is_greeting(request.message)
    IN  /\ chat_history_str' = history_str
        /\ IF rephrase
           THEN /\ llm_calls' = Append(llm_calls,
                       LlmCall("rephrase", None, history_str, None,
                               request.message, outcome))
                /\ standalone_question' =
                       IF outcome.ok THEN outcome.text ELSE standalone_question
           ELSE /\ outcome.ok
                /\ UNCHANGED <<llm_calls, standalone_question>>
        /\ pc' = "retrieve"
        /\ UNCHANGED caught

ChatContextualize ==
    /\ pc = "contextualize"
    /\ \E outcome \in LlmOutcomes("rephrase") : Contextualize(outcome)
    /\ stages' = Append(stages, "contextualize")
    /\ UNCHANGED <<server_vars, cache_vars, vectorstore, request, sys_prompt, retrieval,
                   context_docs, context_text, mode, result>>

\* Lines 97-110 without the try of line 101: a search failure reaches the
\* handler's outer except.
Retrieve_Unguarded(outcome) ==
    /\ IF vectorstore = "None"
       THEN /\ outcome.ok /\ outcome.docs = <<>>
            /\ retrieval' = [status |-> "skipped", query |-> None]
            /\ context_docs' = <<>>
       ELSE /\ retrieval' = [status |-> IF outcome.ok THEN "ok" ELSE "raised",
                             query |-> standalone_question]
            /\ context_docs' = IF outcome.ok THEN outcome.docs ELSE <<>>
    /\ pc' = IF vectorstore # "None" /\ ~outcome.ok THEN "except" ELSE "generate"
    /\ caught' = IF vectorstore # "None" /\ ~outcome.ok
                 THEN [stage |-> "retrieve", text |-> <<"<search error>">>]
                 ELSE caught

\* Lines 97-110: no search without a vector store; a search that raises is
\* caught at line 109 and leaves context_docs empty.
Retrieve(outcome) ==
    /\ IF vectorstore = "None"
       THEN /\ outcome.ok /\ outcome.docs = <<>>
            /\ retrieval' = [status |-> "skipped", query |-> None]
            /\ context_docs' = <<>>
       ELSE /\ retrieval' = [status |-> IF outcome.ok THEN "ok" ELSE "raised",
                             query |-> standalone_question]
            /\ context_docs' = IF outcome.ok THEN outcome.docs ELSE <<>>
    /\ pc' = "generate"
    /\ UNCHANGED caught

ChatRetrieve ==
    /\ pc = "retrieve"
    /\ \E outcome \in RetrieverOutcomes : Retrieve(outcome)
    /\ stages' = Append(stages, "retrieve")
    /\ UNCHANGED <<server_vars, cache_vars, vectorstore, request, sys_prompt,
                   chat_history_str, standalone_question, context_text, mode,
                   llm_calls, result>>

\* Lines 112-165: the general-knowledge chain when there are no documents,
\* the RAG chain otherwise.  Whatever is raised here reaches line 167.
Generate(outcome) ==
    LET rag == context_docs # <<>>
        rendered == RenderSystemPrompt(sys_prompt)
        text == IF rag THEN ContextText(context_docs) ELSE None
        question == IF rag THEN standalone_question ELSE request.message
    IN  /\ mode' = IF rag THEN "rag" ELSE "general"
        /\ context_text' = IF rag /\ rendered.status # "malformed"
                           THEN text ELSE context_text
        /\ IF rendered.status # "ok"
           THEN /\ ~outcome.ok
                /\ caught' = [stage |-> "template",
                              text |-> <<"<" \o rendered.status \o ">">>]
                /\ pc' = "except"
                /\ UNCHANGED <<llm_calls, result>>
           ELSE /\ llm_calls' = Append(llm_calls,
                       LlmCall("generate", rendered.text, chat_history_str,
                               text, question, outcome))
                /\ IF outcome.ok
                   THEN /\ result' = [response |-> outcome.text]
                        /\ pc' = "done"
                        /\ UNCHANGED caught
                   ELSE /\ caught' = [stage |-> "llm", text |-> outcome.text]
                        /\ pc' = "except"
                        /\ UNCHANGED result

ChatGenerate ==
    /\ pc = "generate"
    /\ \E outcome \in LlmOutcomes("generate") : Generate(outcome)
    /\ stages' = Append(stages, "generate")
    /\ UNCHANGED <<server_vars, cache_vars, vectorstore, request, sys_prompt,
                   chat_history_str, standalone_question, retrieval,
                   context_docs>>

\* Lines 167-175 without the inner try: a failure of the direct call leaves
\* the handler.
Fallback_Unguarded(outcome) ==
    /\ llm_calls' = Append(llm_calls,
           LlmCall("direct", None, None, None, request.message, outcome))
    /\ result' = IF outcome.ok THEN [response |-> outcome.text] ELSE result
    /\ pc' = IF outcome.ok THEN "done" ELSE "raised"

\* Lines 167-175 calling the model with the rephrased question.
Fallback_WithStandalone(outcome) ==
    /\ llm_calls' = Append(llm_calls,
           LlmCall("direct", None, None, None, standalone_question, outcome))
    /\ result' = IF outcome.ok
                 THEN [response |-> outcome.text]
                 ELSE [response |-> Apology, error |-> caught.text]
    /\ pc' = "done"

\* Lines 167-175 returning the apology alone.
Fallback_NoDetail(outcome) ==
    /\ llm_calls' = Append(llm_calls,
           LlmCall("direct", None, None, None, request.message, outcome))
    /\ result' = IF outcome.ok
                 THEN [response |-> outcome.text]
                 ELSE [response |-> Apology]
    /\ pc' = "done"

\* Lines 167-175: one direct call with the raw message; if that raises too,
\* the apology and str(e) of the exception caught at line 167.
Fallback(outcome) ==
    /\ llm_calls' = Append(llm_calls,
           LlmCall("direct", None, None, None, request.message, outcome))
    /\ result' = IF outcome.ok
                 THEN [response |-> outcome.text]
                 ELSE [response |-> Apology, error |-> caught.text]
    /\ pc' = "done"

ChatFallback ==
    /\ pc = "except"
    /\ \E outcome \in LlmOutcomes("direct") : Fallback(outcome)
    /\ stages' = Append(stages, "except")
    /\ UNCHANGED <<server_vars, cache_vars, vectorstore, request, sys_prompt,
                   chat_history_str, standalone_question, retrieval,
                   context_docs, context_text, mode, caught>>

(* ------------------- the server: requests side by side ------------------ *)
\* Every handler is an "async def": FastAPI runs it as a coroutine on the
\* one event-loop thread, which runs a coroutine until it awaits or returns.
\* A synchronous call inside a handler (requests.get, open/json.dump,
\* llm.invoke) keeps that thread until the call returns.  The only await in
\* the handlers modelled here is line 265.
FileNames == {"a.pdf", "b.txt"}
RequestIds == 1..MaxRequests

NoFetch == [kind |-> "none", value |-> None]
\* What a remote fetch made while other requests wait does: it raises, or
\* it is answered with the prompt "p".
ServerRemoteOutcomes ==
    {o \in RemoteOutcomes : o.kind = "raise" \/ o.value = <<"p">>}

\* The numbers of chunks the text of an uploaded document splits into.
ChunkCounts == {0, 2}

NoHandler ==
    [kind |-> "none", at |-> "none", during |-> {}, sync |-> FALSE,
     fetched |-> NoFetch, filename |-> "", chunks |-> 0, splits |-> 0, source |-> 0,
     error |-> FALSE, status |-> 0, raised |-> 0]

\* The requests a client can send: POST /chat, GET /settings/system-prompt
\* with sync false or true, POST /upload of a named file whose text splits
\* into the given number of chunks.
NewHandlers ==
    {[NoHandler EXCEPT !.kind = "chat", !.at = "queued"]}
        \cup {[NoHandler EXCEPT !.kind = "get", !.at = "queued", !.sync = s] :
                 s \in BOOLEAN}
        \cup {[NoHandler EXCEPT !.kind = "upload", !.at = "queued",
                                !.filename = f, !.chunks = n] :
                 f \in FileNames, n \in ChunkCounts}

TempAbsent == [exists |-> FALSE, owner |-> 0, chunks |-> 0]

\* The event loop can start or resume a coroutine only when it is running
\* no other one.
LoopFree == loop_thread = 0

\* A request reaches the server; requests are numbered as they arrive.
Arrive(id) ==
    /\ handlers[id].kind = "none"
    /\ id > 1 => handlers[id - 1].kind # "none"
    /\ \E h \in NewHandlers : handlers' = [handlers EXCEPT ![id] = h]
    /\ UNCHANGED <<loop_thread, temp_files, index, cache_vars, chat_vars>>

\* Where a handler stands once load_system_prompt has returned: chat goes
\* on to its model calls (lines 76-165) on the same thread, get returns.
AfterLoad(id, h) ==
    IF h.kind = "chat"
    THEN /\ handlers' = [handlers EXCEPT ![id] =
                            [h EXCEPT !.at = "llm", !.fetched = NoFetch]]
         /\ loop_thread' = id
    ELSE /\ handlers' = [handlers EXCEPT ![id] =
                            [h EXCEPT !.at = "done", !.fetched = NoFetch,
                                      !.status = 200]]
         /\ loop_thread' = 0

\* The uploads whose process_and_index is on an executor thread.
Ingesting == {u \in RequestIds : handlers[u].at \in {"ingest_load", "ingest_index"}}

\* Lines 65-73 and 390-393 up to the first blocking call of
\* load_system_prompt: none when memory answers (line 334), requests.get
\* when Supabase is configured (line 347), else the file read of line 367.
\* "during" notes the uploads being ingested when the coroutine starts.
StartLoad(id) ==
    LET h == [handlers[id] EXCEPT !.during = Ingesting]
    IN  /\ h.kind \in {"chat", "get"}
        /\ h.at = "queued"
        /\ LoopFree
        /\ IF Truthy(_cached_prompt) /\ ~h.sync
           THEN AfterLoad(id, h)
           ELSE /\ handlers' = [handlers EXCEPT ![id] =
                                   [h EXCEPT !.at = IF supabase_configured
                                                    THEN "remote_fetch"
                                                    ELSE "file_read"]]
                /\ loop_thread' = id
        /\ UNCHANGED <<temp_files, index, cache_vars, chat_vars>>

\* requests.get returns or raises (line 347, timeout=5).
FetchReturns(id) ==
    LET h == handlers[id]
    IN  /\ h.at = "remote_fetch"
        /\ loop_thread = id
        /\ \E o \in ServerRemoteOutcomes :
             handlers' = [handlers EXCEPT ![id] =
                             [h EXCEPT !.fetched = o,
                                       !.at = IF o.kind = "row" /\ Truthy(o.value)
                                              THEN "file_write"
                                              ELSE "file_read"]]
        /\ UNCHANGED <<loop_thread, temp_files, index, cache_vars, chat_vars>>

\* The rest of load_system_prompt, from the environment the call met.
FinishLoad(id, h, env) ==
    LET r == load_system_prompt(_cached_prompt, prompt_file,
                                supabase_configured, h.sync, env)
    IN  /\ _cached_prompt' = r.mem
        /\ prompt_file' = r.file
        /\ AfterLoad(id, h)
        /\ UNCHANGED <<supabase_configured, last, temp_files, index, chat_vars>>

\* The write of lines 353-354 ends, well or not.
FileWriteReturns(id) ==
    LET h == handlers[id]
    IN  /\ h.at = "file_write"
        /\ loop_thread = id
        /\ \E w \in WriteOutcomes :
             FinishLoad(id, h, [remote |-> h.fetched, write |-> w, readable |-> TRUE])

\* The read of lines 366-369 ends, well or not.
FileReadReturns(id) ==
    LET h == handlers[id]
        remote == IF h.fetched = NoFetch
                  THEN [kind |-> "empty", value |-> None]
                  ELSE h.fetched
    IN  /\ h.at = "file_read"
        /\ loop_thread = id
        /\ \E rd \in BOOLEAN :
             FinishLoad(id, h, [remote |-> remote, write |-> "ok", readable |-> rd])

\* Lines 76-175: the model calls of a chat turn, after which it returns.
LlmReturns(id) ==
    LET h == handlers[id]
    IN  /\ h.at = "llm"
        /\ loop_thread = id
        /\ handlers' = [handlers EXCEPT ![id] =
                           [h EXCEPT !.at = "done", !.status = 200]]
        /\ loop_thread' = 0
        /\ UNCHANGED <<temp_files, index, cache_vars, chat_vars>>

\* upload_file with process_and_index called in the handler itself instead
\* of through run_in_executor: the event loop stays with the upload.
UploadStart_Inline(id) ==
    LET h == handlers[id]
    IN  /\ h.kind = "upload"
        /\ h.at = "queued"
        /\ LoopFree
        /\ IF vectorstore = "None"
           THEN /\ handlers' = [handlers EXCEPT ![id] =
                                   [h EXCEPT !.at = "done", !.status = 500]]
                /\ UNCHANGED <<loop_thread, temp_files>>
           ELSE /\ temp_files' = [temp_files EXCEPT ![h.filename] =
                                     [exists |-> TRUE, owner |-> id,
                                      chunks |-> h.chunks]]
                /\ handlers' = [handlers EXCEPT ![id] =
                                   [h EXCEPT !.at = "ingest_load"]]
                /\ loop_thread' = id
        /\ UNCHANGED <<index, cache_vars, chat_vars>>

\* Lines 213-265: the handler saves the upload as temp_<filename>, hands
\* process_and_index to the executor and awaits it, which gives the event
\* loop back.  With no vector store it raises at line 218 and the except
\* of line 282 answers 500.
UploadStart(id) ==
    LET h == handlers[id]
    IN  /\ h.kind = "upload"
        /\ h.at = "queued"
        /\ LoopFree
        /\ IF vectorstore = "None"
           THEN /\ handlers' = [handlers EXCEPT ![id] =
                                   [h EXCEPT !.at = "done", !.status = 500]]
                /\ UNCHANGED temp_files
           ELSE /\ temp_files' = [temp_files EXCEPT ![h.filename] =
                                     [exists |-> TRUE, owner |-> id,
                                      chunks |-> h.chunks]]
                /\ handlers' = [handlers EXCEPT ![id] =
                                   [h EXCEPT !.at = "ingest_load"]]
        /\ UNCHANGED <<loop_thread, index, cache_vars, chat_vars>>

\* Lines 229-250, on an executor thread: the loader reads temp_path as it
\* is now and the splitter cuts it; no chunks means "return 0".
IngestLoad(id) ==
    LET h == handlers[id]
        tf == temp_files[h.filename]
    IN  /\ h.at = "ingest_load"
        /\ \E loads \in BOOLEAN :
             handlers' = [handlers EXCEPT ![id] =
                 IF ~tf.exists \/ ~loads
                 THEN [h EXCEPT !.at = "resume", !.error = TRUE]
                 ELSE [h EXCEPT !.splits = tf.chunks, !.source = tf.owner,
                                !.at = IF tf.chunks = 0 THEN "resume"
                                       ELSE "ingest_index"]]
        /\ UNCHANGED <<loop_thread, temp_files, index, cache_vars, chat_vars>>

\* Lines 252-262, on an executor thread: the chunks, at most batch_size of
\* them here, go to the index in one add_documents call, which may raise.
IngestIndex(id) ==
    LET h == handlers[id]
    IN  /\ h.at = "ingest_index"
        /\ \E added \in BOOLEAN :
             IF added
             THEN /\ index' = index \cup
                        {[filename |-> h.filename, source |-> h.source,
                          by |-> id, count |-> h.splits]}
                  /\ handlers' = [handlers EXCEPT ![id] = [h EXCEPT !.at = "resume"]]
             ELSE /\ index' = index
                  /\ handlers' = [handlers EXCEPT ![id] =
                                     [h EXCEPT !.at = "resume", !.error = TRUE]]
        /\ UNCHANGED <<loop_thread, temp_files, cache_vars, chat_vars>>

\* Lines 267-286: what the handler answers once the executor is done.  An
\* exception out of process_and_index goes to the except of line 282; so
\* does the HTTPException(400) of line 271, which is raised inside the try.
upload_result(h) ==
    IF h.error THEN [h EXCEPT !.at = "done", !.status = 500]
    ELSE IF h.splits = 0
    THEN [h EXCEPT !.at = "done", !.status = 500, !.raised = 400]
    ELSE [h EXCEPT !.at = "done", !.status = 200]

\* The event loop resumes the upload after the await of line 265; on every
\* path temp_path is removed if it exists (lines 267-268, 284-285).
UploadResume(id) ==
    LET h == handlers[id]
    IN  /\ h.at = "resume"
        /\ LoopFree
        /\ handlers' = [handlers EXCEPT ![id] = upload_result(h)]
        /\ temp_files' = [temp_files EXCEPT ![h.filename] = TempAbsent]
        /\ loop_thread' = 0
        /\ UNCHANGED <<index, cache_vars, chat_vars>>

(* --------------------------- specifications ---------------------------- *)
\* No request has reached the server.
IdleServer ==
    /\ loop_thread = 0
    /\ handlers = [id \in RequestIds |-> NoHandler]
    /\ temp_files = [f \in FileNames |-> TempAbsent]
    /\ index = {}

\* No /chat turn is being followed step by step.
IdleTurn ==
    /\ pc = "idle"
    /\ request = [message |-> <<>>, history |-> <<>>]
    /\ sys_prompt = None
    /\ chat_history_str = <<>>
    /\ standalone_question = None
    /\ retrieval = [status |-> "none", query |-> None]
    /\ context_docs = <<>>
    /\ context_text = None
    /\ mode = "none"
    /\ llm_calls = <<>>
    /\ stages = <<>>
    /\ caught = NoException
    /\ result = NoResult

IdleChat == vectorstore = "connected" /\ IdleTurn

\* The settings endpoints, called in any order after start-up.
InitSettings == InitCache /\ IdleChat /\ IdleServer
NextSettings == GetSystemPrompt \/ UpdateSystemPrompt
SpecSettings == InitSettings /\ [][NextSettings]_vars

\* The settings endpoints in a process where every write of
\* system_prompt.json succeeds, at start-up and in every call.
InitDurable == InitSettings /\ ~(last.tier = "remote" /\ last.failed)
GetSystemPromptSaved ==
    /\ \E sync \in BOOLEAN :
         \E env \in EnvsOf(_cached_prompt, supabase_configured, sync) :
             env.write = "ok" /\ get_system_prompt(sync, env)
    /\ UNCHANGED <<chat_vars, server_vars>>
UpdateSystemPromptSaved ==
    /\ \E body \in Prompts \cup {None} : update_system_prompt(body, "ok")
    /\ UNCHANGED <<chat_vars, server_vars>>
NextDurable == GetSystemPromptSaved \/ UpdateSystemPromptSaved
SpecDurable == InitDurable /\ [][NextDurable]_vars

\* One /chat turn: a request arrives at a process that finished start-up.
ChatArrives(messages) ==
    /\ vectorstore \in {"connected", "None"}
    /\ pc = "start"
    /\ request \in [message : messages, history : Histories]
    /\ sys_prompt = None
    /\ chat_history_str = <<>>
    /\ standalone_question = None
    /\ retrieval = [status |-> "none", query |-> None]
    /\ context_docs = <<>>
    /\ context_text = None
    /\ mode = "none"
    /\ llm_calls = <<>>
    /\ stages = <<>>
    /\ caught = NoException
    /\ result = NoResult

\* The requests and the start-ups are each varied in full, one at a time:
\* every request against a start-up that found no local file, and every
\* start-up against the request of MaxWords words after one history entry.
PlainBoot(b) == b.configured /\ b.load.file \in {FileAbsent, JsonFile(b.load.mem)}
PlainRequest ==
    [message |-> Words(MaxWords),
     history |-> <<[role |-> <<"assistant">>, content |-> <<"w">>]>>]

InitChat ==
    /\ ChatArrives(ChatMessages)
    /\ \E b \in Boots : Booted(b) /\ (PlainBoot(b) \/ request = PlainRequest)
    /\ last = NoCall
    /\ IdleServer
NextChat ==
    ChatLoadPrompt \/ ChatContextualize \/ ChatRetrieve \/ ChatGenerate \/ ChatFallback
SpecChat == InitChat /\ [][NextChat]_vars
\* The rephrasing step alone, on every message over MsgChars: the handler
\* stands at line 76 with the system prompt loaded.
InitContextualize ==
    /\ \E b \in Boots : Booted(b) /\ b.load.mem = <<"p">> /\ PlainBoot(b)
                        /\ b.load.file # FileAbsent
    /\ last = NoCall
    /\ vectorstore = "connected"
    /\ pc = "contextualize"
    /\ request \in [message : Messages, history : Histories]
    /\ sys_prompt = _cached_prompt
    /\ chat_history_str = <<>>
    /\ standalone_question = request.message
    /\ retrieval = [status |-> "none", query |-> None]
    /\ context_docs = <<>>
    /\ context_text = None
    /\ mode = "none"
    /\ llm_calls = <<>>
    /\ stages = <<"load">>
    /\ caught = NoException
    /\ result = NoResult
    /\ IdleServer
NextContextualize == ChatContextualize
SpecContextualize == InitContextualize /\ [][NextContextualize]_vars

\* Up to MaxRequests requests sent to one server process, in any order and
\* at any time: chat turns, reads of the system prompt and uploads.  The
\* process started with or without a vector store, with or without
\* Supabase, and with memory empty or holding the prompt "p".
InitServer ==
    /\ \E b \in Boots : /\ Booted(b)
                        /\ b.load.mem \in {None, <<"p">>}
                        /\ b.load.file \in {FileAbsent, JsonFile(<<"p">>)}
    /\ last = NoCall
    /\ vectorstore \in {"connected", "None"}
    /\ IdleTurn
    /\ IdleServer

ServerArrive == \E id \in RequestIds : Arrive(id)
ServerStartLoad == \E id \in RequestIds : StartLoad(id)
ServerFetchReturns == \E id \in RequestIds : FetchReturns(id)
ServerFileWriteReturns == \E id \in RequestIds : FileWriteReturns(id)
ServerFileReadReturns == \E id \in RequestIds : FileReadReturns(id)
ServerLlmReturns == \E id \in RequestIds : LlmReturns(id)
ServerUploadStart == \E id \in RequestIds : UploadStart(id)
ServerIngestLoad == \E id \in RequestIds : IngestLoad(id)
ServerIngestIndex == \E id \in RequestIds : IngestIndex(id)
ServerUploadResume == \E id \in RequestIds : UploadResume(id)

NextServer ==
    \/ ServerArrive
    \/ ServerStartLoad
    \/ ServerFetchReturns
    \/ ServerFileWriteReturns
    \/ ServerFileReadReturns
    \/ ServerLlmReturns
    \/ ServerUploadStart
    \/ ServerIngestLoad
    \/ ServerIngestIndex
    \/ ServerUploadResume
SpecServer == InitServer /\ [][NextServer]_vars

(* ------------------------------ claims --------------------------------- *)
HasResponse(r) == "response" \in DOMAIN r /\ r.response # None
AllCallsRaised == \A i \in 1..Len(llm_calls) : ~llm_calls[i].ok
CallsOfKind(kind) == {i \in 1..Len(llm_calls) : llm_calls[i].kind = kind}
RephraseRaised == \E i \in CallsOfKind("rephrase") : ~llm_calls[i].ok

\* C1: whatever fails during a turn (prompt load, rephrasing, retrieval,
\* generation, the direct call), the handler is always at one of its own
\* steps, each of which has a successor, or has returned; it takes at most
\* five steps, never leaves by an exception, and what it returns holds a
\* response text.
C1_ChatAlwaysResponds ==
    /\ pc \in {"start", "contextualize", "retrieve", "generate", "except", "done"}
    /\ Len(stages) <= 5
    /\ pc = "done" <=> result # NoResult
    /\ pc = "done" => HasResponse(result)

\* C1 witness: a turn in which rephrasing, retrieval, generation and the
\* direct call all failed has returned a response.
C1_Witness ==
    /\ pc = "done"
    /\ HasResponse(result)
    /\ RephraseRaised
    /\ retrieval.status = "raised"
    /\ caught.stage = "llm"
    /\ ~llm_calls[Len(llm_calls)].ok

\* C2: once generation has failed, exactly one more call is made to the
\* model; it is the last call of the turn, it is given the raw request
\* message and nothing else (no system prompt, no history, no context), and
\* when it answers, its text is the response returned.
C2_OneDirectCallWithRawMessage ==
    (pc = "done" /\ caught # NoException) =>
        LET n == Len(llm_calls)
            direct == llm_calls[n]
        IN  /\ CallsOfKind("direct") = {n}
            /\ \A i \in CallsOfKind("generate") : i = n - 1 /\ ~llm_calls[i].ok
            /\ direct.question = request.message
            /\ direct.instructions = None
            /\ direct.history = None
            /\ direct.context = None
            /\ direct.ok => result = [response |-> direct.text]

\* C2 witness: generation failed after the question had been rephrased, and
\* the direct call answered.
C2_Witness ==
    /\ pc = "done"
    /\ caught.stage = "llm"
    /\ standalone_question # request.message
    /\ llm_calls[Len(llm_calls)].kind = "direct"
    /\ llm_calls[Len(llm_calls)].ok
    /\ result.response = llm_calls[Len(llm_calls)].text

\* C3: when every call made to the model during the turn raised, the
\* response is the fixed apology and the result carries an error detail that
\* is not empty (the text of the exception that sent the turn to the
\* fallback).
C3_ApologyWhenEveryCallRaises ==
    (pc = "done" /\ AllCallsRaised) =>
        /\ result.response = Apology
        /\ "error" \in DOMAIN result
        /\ result.error # <<>>
        /\ result.error # None
        /\ result.error = caught.text

\* C3 witness: the rephrasing call, the generation call and the direct call
\* were all made and all raised.
C3_Witness ==
    /\ pc = "done"
    /\ AllCallsRaised
    /\ CallsOfKind("rephrase") # {}
    /\ CallsOfKind("generate") # {}
    /\ CallsOfKind("direct") # {}

\* C4: when there is no vector store or the search raises, no documents are
\* kept, the handler goes on to the generation step (the fallback is not
\* entered from retrieval), and generation takes the general-knowledge
\* branch: a model call it makes carries no context.
C4_RetrievalFailureIsNoContext ==
    retrieval.status \in {"skipped", "raised"} =>
        /\ context_docs = <<>>
        /\ pc \in {"generate", "except", "done"}
        /\ pc = "generate" => caught = NoException
        /\ Len(stages) >= 4 => stages[4] = "generate"
        /\ caught.stage \in {"none", "template", "llm"}
        /\ mode \in {"none", "general"}
        /\ pc # "generate" => mode = "general"
        /\ \A i \in CallsOfKind("generate") : llm_calls[i].context = None

\* C4 witness: the search raised and the turn was answered by the
\* general-knowledge branch.
C4_Witness ==
    /\ retrieval.status = "raised"
    /\ pc = "done"
    /\ mode = "general"
    /\ caught = NoException
    /\ CallsOfKind("generate") # {}

\* C5: when the rephrasing call raises, the standalone question stays the
\* request message, the search (if any) is made with it, and the handler
\* goes through retrieval and generation; the fallback is entered, if at
\* all, from generation.
C5_RephraseFailureKeepsMessage ==
    RephraseRaised =>
        /\ standalone_question = request.message
        /\ pc \in {"retrieve", "generate", "except", "done"}
        /\ pc \in {"retrieve", "generate"} => caught = NoException
        /\ retrieval.status \in {"ok", "raised"} => retrieval.query = request.message
        /\ Len(stages) >= 3 => stages[3] = "retrieve"
        /\ Len(stages) >= 4 => stages[4] = "generate"
        /\ caught.stage \in {"none", "template", "llm"}
        /\ \A i \in CallsOfKind("generate") : llm_calls[i].question = request.message

\* C5 witness: rephrasing raised, documents were found with the request
\* message and the RAG branch answered.
C5_Witness ==
    /\ RephraseRaised
    /\ pc = "done"
    /\ retrieval.status = "ok"
    /\ mode = "rag"
    /\ caught = NoException

\* The number of whitespace-separated words of s: the positions where a
\* word starts.
WordCount(s) ==
    Cardinality({i \in 1..Len(s) :
                    s[i] \notin Whitespace /\ (i = 1 \/ s[i - 1] \in Whitespace)})

\* C6: after the rephrasing step, when the history is empty or the message
\* has fewer than 4 words, the standalone question is the message and no
\* call was made to the model; a call was made only for a non-empty history
\* and a message of at least 4 words.
C6_RephraseOnlyWithHistoryAndFourWords ==
    pc = "retrieve" =>
        /\ (request.history = <<>> \/ WordCount(request.message) < 4) =>
               standalone_question = request.message /\ llm_calls = <<>>
        /\ llm_calls # <<>> =>
               request.history # <<>> /\ WordCount(request.message) >= 4

\* C6 witness: a message of three words after a non-empty history went
\* through the step unchanged and without a call.
C6_Witness ==
    /\ pc = "retrieve"
    /\ request.history # <<>>
    /\ WordCount(request.message) = 3
    /\ standalone_question = request.message
    /\ llm_calls = <<>>

\* The blocks of a context text: its parts between "\n\n" separators.
RECURSIVE BlocksOf(_)
BlocksOf(text) ==
    IF \E i \in 1..Len(text) : text[i] = "\n\n"
    THEN LET cut == CHOOSE i \in 1..Len(text) :
                        text[i] = "\n\n" /\ \A j \in 1..(i - 1) : text[j] # "\n\n"
         IN  <<SubSeq(text, 1, cut - 1)>> \o BlocksOf(SubSeq(text, cut + 1, Len(text)))
    ELSE <<text>>

\* C7: when documents were retrieved, the context text is one
\* "[Source: label]: text" block per document, in the order the retriever
\* returned them; each block holds its document's label (its filename, or
\* "doc") once, and the generation call is given that text.
C7_ContextBlocksInRetrievalOrder ==
    (context_docs # <<>> /\ context_text # None) =>
        LET blocks == BlocksOf(context_text)
        IN  /\ Len(blocks) = Len(context_docs)
            /\ \A i \in 1..Len(context_docs) :
                   blocks[i] = <<"[Source: ",
                                 IF context_docs[i].filename = None THEN "doc"
                                 ELSE context_docs[i].filename[1],
                                 "]: ",
                                 context_docs[i].page_content[1]>>
            /\ \A i \in CallsOfKind("generate") : llm_calls[i].context = context_text

\* C7 witness: two different documents were retrieved and the RAG branch
\* called the model.
C7_Witness ==
    /\ Len(context_docs) = 2
    /\ context_docs[1] # context_docs[2]
    /\ context_text # None
    /\ CallsOfKind("generate") # {}

\* C8: the result of every turn carries usedContext, true exactly when
\* generation was handed a non-empty list of documents.
C8_ResultCarriesUsedContext ==
    pc = "done" =>
        /\ "usedContext" \in DOMAIN result
        /\ result.usedContext = (context_docs # <<>>)

\* A value that is neither empty nor made of whitespace only.
NonBlank(v) == v # None /\ \E i \in 1..Len(v) : v[i] \notin Whitespace

\* C9 as stated: of two get(forceSync=false) calls in a row, neither of
\* which met a failure, both return the same string and at most one does
\* any I/O.
C9_TwoGetsOneIO ==
    [][(/\ last.kind = "get" /\ ~last.force /\ ~last.failed
        /\ last'.kind = "get" /\ ~last'.force /\ ~last'.failed)
       => (last'.ret = last.ret /\ (last.io = 0 \/ last'.io = 0))]_vars

\* C9 amended: a get(forceSync=false) that finds a value in memory returns
\* it with no remote fetch and no file access and changes nothing; so a
\* get(forceSync=false) right after one that returned a value from memory,
\* the remote store or the local file returns the same string with no I/O.
C9_MemoryShortCircuits ==
    [][(last'.kind = "get" /\ ~last'.force) =>
        /\ Truthy(_cached_prompt) =>
               /\ last'.ret = _cached_prompt
               /\ last'.io = 0
               /\ ~last'.failed
               /\ UNCHANGED <<_cached_prompt, prompt_file>>
        /\ (last.kind = "get" /\ ~last.force /\ last.tier # "default") =>
               last'.ret = last.ret /\ last'.io = 0]_vars

\* C9 witness: a get(forceSync=false) right after a get(forceSync=false)
\* was answered from memory without I/O.
C9_Witness ==
    /\ last.kind = "get"
    /\ ~last.force
    /\ last.after = "get"
    /\ last.tier = "memory"
    /\ last.io = 0
    /\ last.ret = _cached_prompt

\* C10: a set of a value that is neither empty nor whitespace-only is
\* accepted and puts the value in memory, whatever becomes of the file; a
\* get(forceSync=false) right after an accepted set returns that value.
C10_SetThenGet ==
    [][/\ (last'.kind = "set" /\ NonBlank(last'.arg)) =>
              last'.status = 200 /\ _cached_prompt' = last'.arg
       /\ (last.kind = "set" /\ last.status = 200
           /\ last'.kind = "get" /\ ~last'.force) =>
              last'.ret = last.arg /\ NonBlank(last.arg)]_vars

\* C10 witness: a get(forceSync=false) right after an accepted set whose
\* save failed returned the value set, which the file does not hold.
C10_Witness ==
    /\ last.kind = "get"
    /\ ~last.force
    /\ last.after = "set_unsaved"
    /\ NonBlank(last.ret)
    /\ last.ret = _cached_prompt
    /\ prompt_file # JsonFile(last.ret)

\* C11: a set whose value is empty or whitespace-only is answered with a
\* rejected-request status (4xx), not a server-failure status (5xx), and
\* leaves the in-memory value and the local file as they were.
C11_BlankSetIsRejectedRequest ==
    [][(last'.kind = "set" /\ ~NonBlank(last'.arg)) =>
        /\ last'.status \in 400..499
        /\ UNCHANGED <<_cached_prompt, prompt_file>>]_vars

\* C12: a get that finds no value in memory, in the remote store or in the
\* local file completes normally and returns the hardcoded baseline, which
\* is a non-empty string.
C12_BaselineIsNonEmpty ==
    (last.kind = "get" /\ last.tier = "default") =>
        /\ last.status = 200
        /\ last.ret = DEFAULT_PROMPT
        /\ last.ret # None
        /\ Len(last.ret) > 0

\* The environments in which the remote fetch succeeds with a value.
RemoteValueEnvs == {e \in Envs : e.remote.kind = "row" /\ Truthy(e.remote.value)}

\* C13: a get that reaches the remote tier (Supabase configured, and memory
\* empty or forceSync true) and is answered with a value returns that value
\* and leaves it in memory, whether the file write succeeds, fails in open()
\* or fails in the dump; every get answered by the remote tier completes
\* normally with memory equal to what it returned.
C13_RemoteValueIsAuthoritative ==
    /\ \A sync \in BOOLEAN, e \in RemoteValueEnvs :
          (supabase_configured /\ (~Truthy(_cached_prompt) \/ sync)) =>
              LET r == load_system_prompt(_cached_prompt, prompt_file,
                                          supabase_configured, sync, e)
              IN  /\ r.tier = "remote"
                  /\ r.ret = e.remote.value
                  /\ r.mem = e.remote.value
                  /\ r.failed = (e.write # "ok")
    /\ (last.kind = "get" /\ last.tier = "remote") =>
          /\ last.status = 200
          /\ last.raised = 0
          /\ Truthy(last.ret)
          /\ _cached_prompt = last.ret

\* C13 witness: a forced get over a populated memory was answered by the
\* remote store, the file write failed, and memory holds the fetched value
\* while the file does not.
C13_Witness ==
    /\ last.kind = "get"
    /\ last.force
    /\ last.tier = "remote"
    /\ last.failed
    /\ last.status = 200
    /\ _cached_prompt = last.ret
    /\ prompt_file # JsonFile(last.ret)

\* The environments in which the remote fetch raises, is answered with a
\* status other than 200, with no row, or with a row that has no value.
RemoteMissEnvs == Envs \ RemoteValueEnvs

\* C14: a get that reaches the remote tier (Supabase configured, and memory
\* empty or forceSync true) and gets no value from it returns the value held
\* by the local file and adopts it into memory when the file exists, can be
\* read, parses and holds a value; a file that is absent, unreadable,
\* corrupt or without a value is a miss: the call leaves memory and the
\* file alone and returns memory, or the baseline when memory is empty.
\* Every get answered after a remote miss completes normally.
C14_LocalCopyAfterRemoteMiss ==
    /\ \A sync \in BOOLEAN, e \in RemoteMissEnvs :
          (supabase_configured /\ (~Truthy(_cached_prompt) \/ sync)) =>
              LET r == load_system_prompt(_cached_prompt, prompt_file,
                                          supabase_configured, sync, e)
                  usable == /\ prompt_file.exists
                            /\ e.readable
                            /\ prompt_file.valid
                            /\ Truthy(prompt_file.system_prompt)
              IN  /\ r.file = prompt_file
                  /\ usable => /\ r.ret = prompt_file.system_prompt
                               /\ r.mem = prompt_file.system_prompt
                  /\ ~usable => /\ r.mem = _cached_prompt
                                /\ r.ret = IF Truthy(_cached_prompt)
                                           THEN _cached_prompt
                                           ELSE DEFAULT_PROMPT
    /\ (last.kind = "get" /\ last.tier \in {"file", "default", "memory_after_miss"}) =>
          /\ last.status = 200
          /\ last.raised = 0
          /\ last.tier = "file" =>
                 _cached_prompt = last.ret /\ prompt_file = JsonFile(last.ret)

\* C14 witness: a get whose remote fetch failed was answered from the local
\* file, and memory now holds the file's value.
C14_Witness ==
    /\ last.kind = "get"
    /\ last.tier = "file"
    /\ last.io = 2
    /\ last.failed
    /\ Truthy(last.ret)
    /\ _cached_prompt = last.ret
    /\ prompt_file = JsonFile(last.ret)

\* C15: while a request is inside the remote fetch of the system prompt or
\* inside the write of the local file, a chat turn waiting to be served can
\* be started: the event loop is not held by the request doing the I/O.
C15_PromptIOLeavesTheLoopFree ==
    \A r \in RequestIds, q \in RequestIds :
        (/\ handlers[r].at \in {"remote_fetch", "file_write"}
         /\ handlers[q].kind = "chat"
         /\ handlers[q].at = "queued") => LoopFree

\* C16: while process_and_index of an upload is running (loading, splitting,
\* embedding and upserting, on an executor thread), the event loop is not
\* running that upload's coroutine, so it is free for any chat turn unless
\* another request holds it.
C16_IngestionOffTheLoop ==
    \A u \in Ingesting :
        /\ loop_thread # u
        /\ (\A r \in RequestIds :
                handlers[r].at \notin {"remote_fetch", "file_write",
                                       "file_read", "llm"}) => LoopFree

\* C16 witness: a chat turn was started while an upload was being ingested
\* and has returned its answer, and that upload is still being ingested.
C16_Witness ==
    \E q \in RequestIds, u \in Ingesting :
        /\ handlers[q].kind = "chat"
        /\ handlers[q].at = "done"
        /\ handlers[q].status = 200
        /\ u \in handlers[q].during
        /\ handlers[u].at = "ingest_index"

\* C17: an upload whose document was loaded and split into zero chunks is
\* answered with a rejected-request status (4xx), not a server-failure
\* status (5xx); nothing of it is in the index and its temporary file is
\* gone.
C17_EmptyUploadIsRejectedRequest ==
    \A u \in RequestIds :
        LET h == handlers[u]
        IN  (/\ h.kind = "upload"
             /\ h.at = "done"
             /\ h.source # 0
             /\ ~h.error
             /\ h.splits = 0) =>
                /\ h.status \in 400..499
                /\ \A e \in index : e.by # u
                /\ temp_files[h.filename].owner # u

\* C18: once memory holds a value, only an accepted set or a get answered
\* by the remote store replaces it; a get(forceSync=true) whose remote
\* fetch fails returns the value in memory and leaves memory as it is,
\* whatever the local file holds.
C18_MemoryIsAuthoritative ==
    [][Truthy(_cached_prompt) =>
        /\ _cached_prompt' # _cached_prompt =>
               \/ last'.kind = "set" /\ last'.status = 200
               \/ last'.kind = "get" /\ last'.tier = "remote"
        /\ (/\ last'.kind = "get"
            /\ last'.force
            /\ supabase_configured
            /\ last'.failed
            /\ last'.tier # "remote") =>
               /\ last'.ret = _cached_prompt
               /\ _cached_prompt' = _cached_prompt]_vars

\* C19: the handler's outer except is entered only when the generation call
\* to the model raised; whatever the system prompt holds, once the
\* generation step has run the model was called for it exactly once, with
\* instructions that are the system prompt's text.
C19_OnlyModelFailureEntersFallback ==
    /\ caught.stage \in {"none", "llm"}
    /\ (\E i \in 1..Len(stages) : stages[i] = "generate") =>
           /\ Cardinality(CallsOfKind("generate")) = 1
           /\ \A i \in CallsOfKind("generate") :
                  llm_calls[i].instructions = sys_prompt

\* C20: in a process where no write of system_prompt.json has failed, at
\* start-up and after every get and set, a value held in memory is also the
\* value held by the file, which exists and parses.
C20_WriteThrough ==
    Truthy(_cached_prompt) => prompt_file = JsonFile(_cached_prompt)

\* C20 witness: a forced get right after an accepted set of another value
\* was answered by the remote store, and memory and file both hold the
\* fetched value.
C20_Witness ==
    /\ last.kind = "get"
    /\ last.force
    /\ last.after = "set"
    /\ last.tier = "remote"
    /\ ~last.failed
    /\ _cached_prompt = <<"p">>
    /\ prompt_file = JsonFile(<<"p">>)

\* C21: uploads in flight together, with the same filename or not, do not
\* interfere: while an upload's ingestion has yet to read its temporary
\* file, the file exists and holds what that upload received; what an
\* ingestion loaded, and what it put into the index, is what its own upload
\* received.
C21_UploadsDoNotInterfere ==
    \A u \in RequestIds :
        LET h == handlers[u]
        IN  h.kind = "upload" =>
                /\ h.at = "ingest_load" =>
                       temp_files[h.filename] =
                           [exists |-> TRUE, owner |-> u, chunks |-> h.chunks]
                /\ h.source \in {0, u}
                /\ \A e \in index : e.by = u => e.source = u

====
